---- MODULE Spec2Model ----
(***************************************************************************)
(* Model of pytorch_lightning/utilities/fetching.py: AbstractDataFetcher,  *)
(* DataFetcher, InterBatchParallelDataFetcher, StepFuncDataLoaderIter and  *)
(* DataLoaderIterDataFetcher.                                              *)
(*                                                                         *)
(* A fetcher object is a record of its fields; every method is an operator *)
(* from the record before the call to the record after it, and every       *)
(* action applies one public operation to one fetcher as a whole.          *)
(* The fields `raised`, `ret` and `start_output` of the record are the     *)
(* transient outcome of a call (exception, return value, hook output), and *)
(* `fault` is its input: the source fails with an I/O error when pulled.   *)
(***************************************************************************)
EXTENDS Integers, Sequences, FiniteSets, TLC

\* ---- bounds of the model ------------------------------------------------
\* longest source
MaxLen == 3
\* largest prefetch_batches
MaxDepth == 3
\* __iter__ calls per fetcher
MaxPasses == 2
\* source names carried by one store_progress call
MaxNames == 2
\* pulls of the wrapped iterator past the end of the source
MaxStops == 2

Fetchers == {1, 2}
None == -1
NoError == "none"
Kinds == {"DataFetcher", "InterBatchParallelDataFetcher", "DataLoaderIterDataFetcher"}

VARIABLES
    src,              \* the source bound by setup(): batch i of the dataloader is src[i]
    src_names,        \* number of named child sources that emit progress tokens
    fetchers,         \* the fetcher objects that exist
    kind,             \* class of the fetcher
    prefetch_batches, store_on_device,
    dataloader,       \* _dataloader: None or 1 (bound to src)
    dataloader_iter,  \* None, or the number of batches the iterator has yielded
    fetched, done, batches, events,
    iterator,         \* DataLoaderIterDataFetcher.iterator: None (attribute absent) or 1
    cache_states, state, previous_state,   \* attributes set on dataloader_iter
    \* ---- history of the current pass (not program state) ----
    pass,             \* number of __iter__ calls made on the fetcher
    in_pass,          \* between a successful __iter__ and the next reset/teardown
    out,              \* values returned by __next__ in the pass (prefetching fetchers)
    stop_raised,      \* __next__ has raised StopIteration since the last __iter__
    waits,            \* log of wait() calls made since the last __iter__
    issued,           \* device transfers issued since the last __iter__
    pulled,           \* successful next(iterator) calls since the last __iter__
    stops,            \* StopIterations raised by the source iterator since the last __iter__
    handed,           \* the wrapped iterator was returned to the consumer in this pass
    abandoned,        \* where the last teardown() found the pass it ended
    entered,          \* between a successful __iter__ and the next teardown()
    steps,            \* what the last operation did, in order, with `done` at each step
    result            \* outcome of the last operation: [op, raised, ret]

progVars == <<kind, prefetch_batches, store_on_device, dataloader, dataloader_iter,
              fetched, done, batches, events, iterator,
              cache_states, state, previous_state>>
histVars == <<pass, in_pass, out, stop_raised, waits, issued, pulled, stops, handed,
              abandoned, entered, steps, result>>
vars == <<src, src_names, fetchers, progVars, histVars>>

IsPrefetching(k) == k \in {"DataFetcher", "InterBatchParallelDataFetcher"}
Names == 1..MaxNames
NoState == [n \in Names |-> 0]

\* The fetcher f as one record.
Self(f) ==
    [kind |-> kind[f], prefetch_batches |-> prefetch_batches[f],
     store_on_device |-> store_on_device[f], dataloader |-> dataloader[f],
     dataloader_iter |-> dataloader_iter[f], fetched |-> fetched[f], done |-> done[f],
     batches |-> batches[f], events |-> events[f], iterator |-> iterator[f],
     cache_states |-> cache_states[f], state |-> state[f],
     previous_state |-> previous_state[f],
     pass |-> pass[f], in_pass |-> in_pass[f], out |-> out[f],
     stop_raised |-> stop_raised[f], waits |-> waits[f], issued |-> issued[f],
     pulled |-> pulled[f], stops |-> stops[f], handed |-> handed[f],
     abandoned |-> abandoned[f], entered |-> entered[f],
     steps |-> <<>>, fault |-> FALSE,
     raised |-> NoError, ret |-> None, start_output |-> None]

\* Write the record s back as fetcher f after operation op.
Store(f, s, op) ==
    /\ kind' = [kind EXCEPT ![f] = s.kind]
    /\ prefetch_batches' = [prefetch_batches EXCEPT ![f] = s.prefetch_batches]
    /\ store_on_device' = [store_on_device EXCEPT ![f] = s.store_on_device]
    /\ dataloader' = [dataloader EXCEPT ![f] = s.dataloader]
    /\ dataloader_iter' = [dataloader_iter EXCEPT ![f] = s.dataloader_iter]
    /\ fetched' = [fetched EXCEPT ![f] = s.fetched]
    /\ done' = [done EXCEPT ![f] = s.done]
    /\ batches' = [batches EXCEPT ![f] = s.batches]
    /\ events' = [events EXCEPT ![f] = s.events]
    /\ iterator' = [iterator EXCEPT ![f] = s.iterator]
    /\ cache_states' = [cache_states EXCEPT ![f] = s.cache_states]
    /\ state' = [state EXCEPT ![f] = s.state]
    /\ previous_state' = [previous_state EXCEPT ![f] = s.previous_state]
    /\ pass' = [pass EXCEPT ![f] = s.pass]
    /\ in_pass' = [in_pass EXCEPT ![f] = s.in_pass]
    /\ out' = [out EXCEPT ![f] = s.out]
    /\ stop_raised' = [stop_raised EXCEPT ![f] = s.stop_raised]
    /\ waits' = [waits EXCEPT ![f] = s.waits]
    /\ issued' = [issued EXCEPT ![f] = s.issued]
    /\ pulled' = [pulled EXCEPT ![f] = s.pulled]
    /\ stops' = [stops EXCEPT ![f] = s.stops]
    /\ handed' = [handed EXCEPT ![f] = s.handed]
    /\ abandoned' = [abandoned EXCEPT ![f] = s.abandoned]
    /\ entered' = [entered EXCEPT ![f] = s.entered]
    /\ steps' = [steps EXCEPT ![f] = s.steps]
    /\ result' = [result EXCEPT ![f] = [op |-> op, raised |-> s.raised, ret |-> s.ret]]
    /\ UNCHANGED <<src, src_names, fetchers>>

\* ---- AbstractDataFetcher._store_dataloader_iter_state --------------------

\* The progress tokens the source emits during pull number i: one per name.
Tokens(i) == [k \in 1..src_names |-> [name |-> k, pull |-> i]]

\* len(dataloader_iter.state)
StateLen(st) == Cardinality({n \in Names : st[n] # 0})

\* mutant: an incoming token is buffered in front of the older ones
RECURSIVE CacheTokens_front(_, _)
CacheTokens_front(cache, toks) ==
    IF toks = <<>> THEN cache
    ELSE CacheTokens_front([cache EXCEPT ![Head(toks).name] = <<Head(toks).pull>> \o @],
                           Tail(toks))

\* lines 123-127: buffer every incoming token under its name
RECURSIVE CacheTokens(_, _)
CacheTokens(cache, toks) ==
    IF toks = <<>> THEN cache
    ELSE CacheTokens([cache EXCEPT ![Head(toks).name] = Append(@, Head(toks).pull)],
                     Tail(toks))

\* mutant: the gate opens one pull late
ShouldMerge_late(s) == s.fetched > s.prefetch_batches

\* line 129: the gate that delays the merge by prefetch_batches pulls
ShouldMerge(s) == s.fetched >= s.prefetch_batches

\* lines 130-135: per incoming token, archive the state and fold the oldest
\* buffered token of that name into it
RECURSIVE MergeTokens(_, _)
MergeTokens(s, toks) ==
    IF toks = <<>> THEN s
    ELSE LET n == Head(toks).name
             prev == IF StateLen(s.state) > 0 THEN s.state ELSE s.previous_state
         IN MergeTokens([s EXCEPT !.previous_state = prev,
                                  !.state = [@ EXCEPT ![n] = Head(s.cache_states[n])],
                                  !.cache_states = [@ EXCEPT ![n] = Tail(@)]],
                        Tail(toks))

store_dataloader_iter_state(s, toks) ==
    LET s1 == [s EXCEPT !.cache_states = CacheTokens(@, toks)]
    IN IF ShouldMerge(s1) THEN MergeTokens(s1, toks) ELSE s1

\* The patch that fault-tolerant training puts on the source iterator: a
\* successful pull number i stores its progress tokens before it returns,
\* that is before the caller counts the pull in `fetched`.
patched_store(s, i) == store_dataloader_iter_state(s, Tokens(i))

\* The record with one more step in the log of the running operation.
Logged(s, step) == [s EXCEPT !.steps = Append(@, [step |-> step, done |-> s.done])]

\* next(iterator): the next batch of the source, or StopIteration once the
\* source is exhausted, again on every later pull; a failing source raises
\* its own error and yields nothing.
next_iterator(s) ==
    LET s0 == Logged(s, "pull")
    IN IF s0.fault THEN [s0 EXCEPT !.raised = "IOError"]
       ELSE IF s0.dataloader_iter < Len(src)
       THEN LET i == s0.dataloader_iter + 1
            IN [patched_store(s0, i) EXCEPT
                   !.dataloader_iter = i, !.ret = src[i], !.pulled = @ + 1]
       ELSE [s0 EXCEPT !.raised = "StopIteration", !.stops = @ + 1]

\* ---- hooks ----------------------------------------------------------------

\* The transfers issued so far on a stream: what an event recorded now on
\* that stream will have completed when it is waited on.
IssuedOn(s, stream) ==
    {s.issued[i].batch : i \in {j \in DOMAIN s.issued : s.issued[j].stream = stream}}

\* on_fetch_start: the overlap fetcher creates the event of the coming fetch
on_fetch_start(s) ==
    IF s.kind = "InterBatchParallelDataFetcher"
    THEN [s EXCEPT !.start_output =
             [pass |-> s.pass, fetch |-> s.fetched + 1, recorded |-> FALSE, covers |-> {}]]
    ELSE [s EXCEPT !.start_output = None]

\* mutant: the fetched batch goes to the front of the buffer
on_fetch_end_front(s, batch, start_output) ==
    IF s.kind = "InterBatchParallelDataFetcher"
    THEN [s EXCEPT !.batches = <<batch>> \o @,
                   !.events = Append(@, [start_output EXCEPT
                                  !.recorded = TRUE, !.covers = IssuedOn(s, "default")])]
    ELSE [s EXCEPT !.batches = <<batch>> \o @]

\* on_fetch_end: DataFetcher appends the batch; the overlap fetcher also
\* records the event on the current (default) stream and queues it
on_fetch_end(s, batch, start_output) ==
    IF s.kind = "InterBatchParallelDataFetcher"
    THEN [s EXCEPT !.batches = Append(@, batch),
                   !.events = Append(@, [start_output EXCEPT
                                  !.recorded = TRUE, !.covers = IssuedOn(s, "default")])]
    ELSE [s EXCEPT !.batches = Append(@, batch)]

\* wait: no-op hook, overridden by the overlap fetcher to pop the first event
\* and wait on it.  `batch` is the batch that the running __next__ selected.
wait(s, batch) ==
    IF s.kind = "InterBatchParallelDataFetcher"
    THEN [Logged(s, "wait") EXCEPT !.events = Tail(@),
                   !.waits = Append(@, [event |-> Head(s.events), batch |-> batch,
                                        issued |-> batch \in IssuedOn(s, "cuda_stream")])]
    ELSE [Logged(s, "wait") EXCEPT !.waits = Append(@, [event |-> None, batch |-> batch,
                                        issued |-> batch \in IssuedOn(s, "default")])]

\* move_to_device: batch_to_device runs only if store_on_device; the overlap
\* fetcher runs it inside its own cuda stream
move_to_device(s, batch) ==
    IF s.store_on_device
    THEN [Logged(s, "batch_to_device") EXCEPT !.issued = Append(@, [batch |-> batch,
                        stream |-> IF s.kind = "InterBatchParallelDataFetcher"
                                   THEN "cuda_stream" ELSE "default"]),
                   !.ret = [id |-> batch, on_device |-> TRUE]]
    ELSE [s EXCEPT !.ret = [id |-> batch, on_device |-> FALSE]]

\* ---- DataFetcher ------------------------------------------------------------

\* mutant: the pull is counted before the iterator is asked
fetch_next_batch_count_first(s) ==
    LET s1 == on_fetch_start([s EXCEPT !.fetched = @ + 1])
        s2 == next_iterator(s1)
    IN IF s2.raised # NoError THEN s2
       ELSE on_fetch_end(s2, s2.ret, s1.start_output)

\* _fetch_next_batch: the hook output is dropped when next() raises
fetch_next_batch(s) ==
    LET s1 == on_fetch_start(s)
        s2 == next_iterator(s1)
    IN IF s2.raised # NoError THEN s2
       ELSE on_fetch_end([s2 EXCEPT !.fetched = @ + 1], s2.ret, s1.start_output)

\* prefetching: `for _ in range(n)` with a break on StopIteration
RECURSIVE prefetch_loop(_, _)
prefetch_loop(s, n) ==
    IF n = 0 THEN s
    ELSE LET t == fetch_next_batch(s)
         IN IF t.raised = "StopIteration" THEN [t EXCEPT !.raised = NoError]
            ELSE prefetch_loop(t, n - 1)

\* mutant: is_last taken from the exhaustion flag
buffer_now_empty_done(s) == s.done

\* line 255: the is_last flag of the returned pair
buffer_now_empty(s) == Len(s.batches) = 0

\* mutant: the batch is placed on the device before the wait
move_then_wait(s, batch) == wait(move_to_device(s, batch), batch)

\* lines 254-255: self.wait(), then self.move_to_device(batch)
wait_then_move(s, batch) == move_to_device(wait(s, batch), batch)

\* DataFetcher.fetching_function
prefetch_fetching_function(s) ==
    IF s.batches = <<>>
    THEN [s EXCEPT !.raised = "StopIteration", !.stop_raised = TRUE]
    ELSE LET batch == Head(s.batches)
             s1 == [Logged(s, "pop") EXCEPT !.batches = Tail(@)]
             s2 == IF s1.done THEN s1
                   ELSE IF s1.dataloader_iter = None
                        THEN [s1 EXCEPT !.raised = "AssertionError"]
                        ELSE LET t == fetch_next_batch(s1)
                             IN IF t.raised = "StopIteration"
                                THEN [t EXCEPT !.done = TRUE, !.raised = NoError]
                                ELSE t
         IN IF s2.raised # NoError THEN s2
            ELSE LET s3 == wait_then_move(s2, batch)
                     pair == <<s3.ret, buffer_now_empty(s3)>>
                 IN [s3 EXCEPT !.ret = pair, !.out = Append(@, pair)]

\* ---- StepFuncDataLoaderIter / DataLoaderIterDataFetcher --------------------

\* mutant: exhaustion of the wrapped iterator is not recorded
step_func_next_no_done(s) ==
    LET t == next_iterator(s)
    IN IF t.raised = "StopIteration" THEN t
       ELSE [t EXCEPT !.fetched = @ + 1]

\* StepFuncDataLoaderIter.__next__
step_func_next(s) ==
    LET t == next_iterator(s)
    IN IF t.raised = "StopIteration" THEN [t EXCEPT !.done = TRUE]
       ELSE [t EXCEPT !.fetched = @ + 1]

\* mutant: __next__ pulls a batch itself before it returns
caller_fetching_function_pulls(s) ==
    IF ~s.done
    THEN IF s.iterator = None THEN [s EXCEPT !.raised = "AttributeError"]
         ELSE LET t == step_func_next(s)
              IN [t EXCEPT !.raised = NoError, !.ret = <<t.fetched, t.done>>,
                           !.handed = s.in_pass]
    ELSE [s EXCEPT !.raised = "StopIteration", !.stop_raised = TRUE]

\* DataLoaderIterDataFetcher.fetching_function
caller_fetching_function(s) ==
    IF ~s.done
    THEN IF s.iterator = None THEN [s EXCEPT !.raised = "AttributeError"]
         ELSE [s EXCEPT !.ret = <<s.fetched, s.done>>, !.handed = s.in_pass]
    ELSE [s EXCEPT !.raised = "StopIteration", !.stop_raised = TRUE]

\* ---- AbstractDataFetcher lifecycle ------------------------------------------

\* mutant: DataFetcher does not extend reset
reset_base_only(s) == [s EXCEPT !.fetched = 0, !.done = FALSE]

\* reset: AbstractDataFetcher.reset, extended by DataFetcher.reset
reset(s) ==
    IF IsPrefetching(s.kind)
    THEN [s EXCEPT !.fetched = 0, !.done = FALSE, !.batches = <<>>]
    ELSE [s EXCEPT !.fetched = 0, !.done = FALSE]

\* mutant: the prefetch stops one batch short
prefetching_one_short(s) ==
    IF IsPrefetching(s.kind) THEN prefetch_loop(s, s.prefetch_batches - 1)
    ELSE [s EXCEPT !.iterator = 1]

\* prefetching, by class
prefetching(s) ==
    IF IsPrefetching(s.kind) THEN prefetch_loop(s, s.prefetch_batches)
    ELSE [s EXCEPT !.iterator = 1]

\* fetching_function, by class
fetching_function(s) ==
    IF IsPrefetching(s.kind) THEN prefetch_fetching_function(s)
    ELSE caller_fetching_function(s)

\* __iter__: reset, then the dataloader property (raises if never set up),
\* a new iterator over the dataloader, and the prefetch
fetcher_iter(s) ==
    LET s1 == [reset(s) EXCEPT !.pass = @ + 1, !.in_pass = FALSE, !.out = <<>>,
                   !.stop_raised = FALSE, !.waits = <<>>, !.issued = <<>>,
                   !.pulled = 0, !.stops = 0, !.handed = FALSE]
    IN IF s1.dataloader = None
       THEN [s1 EXCEPT !.raised = "MisconfigurationException"]
       ELSE [prefetching([s1 EXCEPT !.dataloader_iter = 0, !.in_pass = TRUE,
                             !.entered = TRUE,
                             !.cache_states = [n \in Names |-> <<>>],
                             !.state = NoState, !.previous_state = <<>>])
               EXCEPT !.ret = None]

\* mutant: teardown keeps the iterator
teardown_keeps_iter(s) ==
    LET s1 == [reset(s) EXCEPT !.in_pass = FALSE, !.handed = FALSE, !.entered = FALSE,
                   !.abandoned = IF ~s.in_pass THEN @
                                 ELSE IF s.stop_raised THEN "exhausted"
                                 ELSE IF s.out = <<>> THEN "start" ELSE "middle"]
    IN IF s1.dataloader = None
       THEN [s1 EXCEPT !.raised = "MisconfigurationException"]
       ELSE s1

\* teardown: reset, then the dataloader property, then drop the iterator
teardown(s) ==
    LET s1 == [reset(s) EXCEPT !.in_pass = FALSE, !.handed = FALSE, !.entered = FALSE,
                   !.abandoned = IF ~s.in_pass THEN @
                                 ELSE IF s.stop_raised THEN "exhausted"
                                 ELSE IF s.out = <<>> THEN "start" ELSE "middle"]
    IN IF s1.dataloader = None
       THEN [s1 EXCEPT !.raised = "MisconfigurationException"]
       ELSE [s1 EXCEPT !.dataloader_iter = None]

\* loader_iters: raises outside the __iter__ context, else reads the
\* dataloader property and returns the list of the iterator
loader_iters(s) ==
    IF s.dataloader_iter = None THEN [s EXCEPT !.raised = "MisconfigurationException"]
    ELSE IF s.dataloader = None THEN [s EXCEPT !.raised = "MisconfigurationException"]
    ELSE [s EXCEPT !.ret = <<s.dataloader_iter>>]

\* ---- the state machine ------------------------------------------------------

\* The arguments the constructors accept: prefetch_batches >= 1 for the
\* prefetching classes; DataLoaderIterDataFetcher takes none.
Constructed(k, d, sod) ==
    \/ IsPrefetching(k) /\ d \in 1..MaxDepth /\ sod \in BOOLEAN
    \/ k = "DataLoaderIterDataFetcher" /\ d = 0 /\ sod = FALSE

Configs == {c \in Kinds \X (0..MaxDepth) \X BOOLEAN : Constructed(c[1], c[2], c[3])}

\* A fetcher as its constructor leaves it.
New(c) ==
    [kind |-> c[1], prefetch_batches |-> c[2], store_on_device |-> c[3],
     dataloader |-> None, dataloader_iter |-> None, fetched |-> 0, done |-> FALSE,
     batches |-> <<>>, events |-> <<>>, iterator |-> None,
     cache_states |-> [n \in Names |-> <<>>], state |-> NoState, previous_state |-> <<>>,
     pass |-> 0, in_pass |-> FALSE, out |-> <<>>, stop_raised |-> FALSE, waits |-> <<>>,
     issued |-> <<>>, pulled |-> 0, stops |-> 0, handed |-> FALSE, abandoned |-> "none",
     entered |-> FALSE, steps |-> <<>>, fault |-> FALSE,
     raised |-> NoError, ret |-> None, start_output |-> None]

InitOf(cfg) ==
    /\ src \in {[i \in 1..n |-> i] : n \in 0..MaxLen}
    /\ src_names \in 1..MaxNames
    /\ kind = [f \in Fetchers |-> New(cfg[f]).kind]
    /\ prefetch_batches = [f \in Fetchers |-> New(cfg[f]).prefetch_batches]
    /\ store_on_device = [f \in Fetchers |-> New(cfg[f]).store_on_device]
    /\ dataloader = [f \in Fetchers |-> New(cfg[f]).dataloader]
    /\ dataloader_iter = [f \in Fetchers |-> New(cfg[f]).dataloader_iter]
    /\ fetched = [f \in Fetchers |-> New(cfg[f]).fetched]
    /\ done = [f \in Fetchers |-> New(cfg[f]).done]
    /\ batches = [f \in Fetchers |-> New(cfg[f]).batches]
    /\ events = [f \in Fetchers |-> New(cfg[f]).events]
    /\ iterator = [f \in Fetchers |-> New(cfg[f]).iterator]
    /\ cache_states = [f \in Fetchers |-> New(cfg[f]).cache_states]
    /\ state = [f \in Fetchers |-> New(cfg[f]).state]
    /\ previous_state = [f \in Fetchers |-> New(cfg[f]).previous_state]
    /\ pass = [f \in Fetchers |-> New(cfg[f]).pass]
    /\ in_pass = [f \in Fetchers |-> New(cfg[f]).in_pass]
    /\ out = [f \in Fetchers |-> New(cfg[f]).out]
    /\ stop_raised = [f \in Fetchers |-> New(cfg[f]).stop_raised]
    /\ waits = [f \in Fetchers |-> New(cfg[f]).waits]
    /\ issued = [f \in Fetchers |-> New(cfg[f]).issued]
    /\ pulled = [f \in Fetchers |-> New(cfg[f]).pulled]
    /\ stops = [f \in Fetchers |-> New(cfg[f]).stops]
    /\ handed = [f \in Fetchers |-> New(cfg[f]).handed]
    /\ abandoned = [f \in Fetchers |-> New(cfg[f]).abandoned]
    /\ entered = [f \in Fetchers |-> New(cfg[f]).entered]
    /\ steps = [f \in Fetchers |-> New(cfg[f]).steps]
    /\ result = [f \in Fetchers |-> [op |-> "init", raised |-> NoError, ret |-> None]]

\* One fetcher of any class; the second object is never used.
Init ==
    /\ fetchers = {1}
    /\ \E c \in Configs : InitOf([f \in Fetchers |-> IF f = 1 THEN c ELSE <<"DataFetcher", 1, FALSE>>])

\* setup(dataloader)
Setup(f) == Store(f, [Self(f) EXCEPT !.dataloader = 1], "setup")

\* iter(fetcher)
Iter(f) ==
    /\ pass[f] < MaxPasses
    /\ Store(f, fetcher_iter(Self(f)), "iter")

\* next(fetcher)
Advance(f) == Store(f, fetching_function(Self(f)), "next")

\* Two synchronous fetchers of any two depths over the same source, with the
\* same device placement.
InitDepth ==
    /\ fetchers = {1, 2}
    /\ \E d1, d2 \in 1..MaxDepth, sod \in BOOLEAN :
           InitOf([f \in Fetchers |-> <<"DataFetcher", IF f = 1 THEN d1 ELSE d2, sod>>])

NextDepth ==
    \E f \in fetchers :
        \/ Setup(f)
        \/ Iter(f)
        \/ Advance(f)

SpecDepth == InitDepth /\ [][NextDepth]_vars

\* fetcher.reset()
Reset(f) == Store(f, [reset(Self(f)) EXCEPT !.in_pass = FALSE, !.handed = FALSE], "reset")

\* fetcher.teardown()
Teardown(f) == Store(f, teardown(Self(f)), "teardown")

\* fetcher.loader_iters
LoaderIters(f) == Store(f, loader_iters(Self(f)), "loader_iters")

\* next(dataloader_iter) by the consumer of the caller-driven fetcher, on the
\* wrapped iterator that __next__ returned in the running pass
WrappedNext(f) ==
    /\ kind[f] = "DataLoaderIterDataFetcher"
    /\ handed[f]
    /\ stops[f] < MaxStops
    /\ Store(f, step_func_next(Self(f)), "pull")

Next ==
    \E f \in fetchers :
        \/ Setup(f)
        \/ Iter(f)
        \/ Advance(f)
        \/ Reset(f)
        \/ Teardown(f)
        \/ LoaderIters(f)
        \/ WrappedNext(f)

Spec == Init /\ [][Next]_vars

\* next(fetcher) of a prefetching fetcher while the source fails: the refill
\* pull that this call makes raises an I/O error
AdvanceFailing(f) ==
    /\ IsPrefetching(kind[f])
    /\ batches[f] # <<>> /\ ~done[f] /\ dataloader_iter[f] # None
    /\ Store(f, fetching_function([Self(f) EXCEPT !.fault = TRUE]), "next")

\* The fetcher over a source whose pulls may fail.
NextFail ==
    \E f \in fetchers :
        \/ Setup(f)
        \/ Iter(f)
        \/ Advance(f)
        \/ AdvanceFailing(f)

SpecFail == Init /\ [][NextFail]_vars

\* ---- claims -------------------------------------------------------------------

Prefetchers == {f \in fetchers : kind[f] = "DataFetcher"}
Overlappers == {f \in fetchers : kind[f] = "InterBatchParallelDataFetcher"}
CallerDriven == {f \in fetchers : kind[f] = "DataLoaderIterDataFetcher"}

\* The pair that the k-th __next__ of a pass over src is to return.
ExpectedPair(f, k) == <<[id |-> src[k], on_device |-> store_on_device[f]], k = Len(src)>>

\* C1: a pass of the synchronous fetcher over a source of length L >= 1
\* returns exactly L pairs, is_last is true on the L-th pair only, and
\* StopIteration is raised by the call after the L-th pair and by no
\* earlier call.
C1_ExactlyLPairs ==
    \A f \in Prefetchers :
        (in_pass[f] /\ Len(src) >= 1) =>
            /\ Len(out[f]) <= Len(src)
            /\ \A k \in 1..Len(out[f]) : out[f][k][2] = (k = Len(src))
            /\ stop_raised[f] => Len(out[f]) = Len(src)
            /\ Len(out[f]) = Len(src) => batches[f] = <<>>
            /\ Len(out[f]) < Len(src) => batches[f] # <<>>
            /\ result[f].op = "next" => result[f].raised \in {NoError, "StopIteration"}

C1_Witness ==
    \E f \in Prefetchers :
        /\ in_pass[f] /\ Len(src) >= 2 /\ prefetch_batches[f] >= 2
        /\ Len(out[f]) = Len(src) /\ stop_raised[f]
        /\ result[f] = [op |-> "next", raised |-> "StopIteration", ret |-> None]

Max(a, b) == IF a >= b THEN a ELSE b
Min(a, b) == IF a <= b THEN a ELSE b

\* C2 (as claimed): in overlap mode with device storage, every wait() of a
\* pass waits, for the batch that the call returns, after the transfer of
\* that batch was issued, on an event whose record covers that transfer.
C2_WaitAfterOwnTransfer ==
    \A f \in Overlappers :
        (in_pass[f] /\ store_on_device[f]) =>
            \A k \in DOMAIN waits[f] :
                /\ waits[f][k].issued
                /\ waits[f][k].batch \in waits[f][k].event.covers

\* C3 (as claimed): in a pass of the overlap fetcher, the k-th wait() waits
\* on the event created for the k-th successful fetch of the same pass, and
\* a pass run to exhaustion has made as many waits as fetches.
C3_WaitFifo ==
    \A f \in Overlappers :
        in_pass[f] =>
            /\ \A k \in DOMAIN waits[f] :
                   /\ waits[f][k].event.pass = pass[f]
                   /\ waits[f][k].event.fetch = k
            /\ stop_raised[f] => Len(waits[f]) = fetched[f]

\* C4 (as claimed): after K batches were delivered by the synchronous
\* fetcher of depth D, the merged state holds the token of batch
\* max(0, K - D) (0: no token), and never the token of batch K.
C4_LagAsClaimed ==
    \A f \in Prefetchers :
        in_pass[f] =>
            \A n \in 1..src_names :
                /\ state[f][n] = Max(0, Len(out[f]) - prefetch_batches[f])
                /\ Len(out[f]) >= 1 => state[f][n] # Len(out[f])

\* C4 (amended): after K batches were delivered by the synchronous fetcher
\* of depth D over a source of length L, the merged state holds the token
\* of pull max(0, min(L, K + D) - D) (0: no token); this is batch K while
\* the source is not exhausted, and never a batch after K.
C4_LagBehindFetch ==
    \A f \in Prefetchers :
        in_pass[f] =>
            \A n \in 1..src_names :
                /\ state[f][n] =
                       Max(0, Min(Len(src), Len(out[f]) + prefetch_batches[f])
                              - prefetch_batches[f])
                /\ state[f][n] <= Len(out[f])
                /\ Len(out[f]) + prefetch_batches[f] <= Len(src) => state[f][n] = Len(out[f])

C4_Witness ==
    \E f \in Prefetchers :
        /\ in_pass[f] /\ prefetch_batches[f] >= 2 /\ src_names >= 2
        /\ Len(out[f]) >= 1 /\ Len(out[f]) + prefetch_batches[f] <= Len(src)
        /\ \A n \in 1..src_names : state[f][n] = Len(out[f])

\* The pairs of an uninterrupted pass: __next__ called until it raises.
RECURSIVE RunPass(_)
RunPass(s) ==
    LET t == fetching_function(s)
    IN IF t.raised # NoError THEN s.out ELSE RunPass(t)

\* The first pass of a newly constructed and set up fetcher of f's class.
FirstPass(f) ==
    RunPass(fetcher_iter([New(<<kind[f], prefetch_batches[f], store_on_device[f]>>)
                             EXCEPT !.dataloader = 1]))

IsPrefix(a, b) == Len(a) <= Len(b) /\ \A k \in 1..Len(a) : a[k] = b[k]

\* C5: a pass started after teardown() ended an earlier pass (before its
\* first __next__, in its middle or after exhaustion) delivers the pairs of
\* an uninterrupted first pass: always a prefix of them, and all of them
\* once StopIteration is raised.
C5_TeardownThenSamePass ==
    \A f \in Prefetchers \cup Overlappers :
        (in_pass[f] /\ abandoned[f] # "none") =>
            /\ IsPrefix(out[f], FirstPass(f))
            /\ stop_raised[f] => out[f] = FirstPass(f)

C5_Witness ==
    \E f \in Prefetchers :
        /\ in_pass[f] /\ abandoned[f] = "middle" /\ stop_raised[f]
        /\ prefetch_batches[f] >= 2 /\ Len(out[f]) >= 2 /\ out[f] = FirstPass(f)

\* C6: in a pass of the caller-driven fetcher, fetched counts the
\* successful pulls of the wrapped iterator, done is false up to and
\* including the L-th successful pull and true once a pull found the source
\* exhausted, and __next__ raises StopIteration when done is true and
\* returns (fetched, (iterator, False)) otherwise.
C6_CallerDrivenDone ==
    \A f \in CallerDriven :
        in_pass[f] =>
            /\ fetched[f] = pulled[f]
            /\ pulled[f] <= Len(src)
            /\ done[f] <=> stops[f] > 0
            /\ done[f] => pulled[f] = Len(src)
            /\ (result[f].op = "pull" /\ result[f].raised = NoError) => ~done[f]
            /\ (result[f].op = "pull" /\ result[f].raised # NoError) =>
                   done[f] /\ result[f].raised = "StopIteration"
            /\ (result[f].op = "next" /\ done[f]) => result[f].raised = "StopIteration"
            /\ (result[f].op = "next" /\ ~done[f]) =>
                   result[f].raised = NoError /\ result[f].ret = <<fetched[f], FALSE>>

C6_Witness ==
    \E f \in CallerDriven :
        /\ in_pass[f] /\ done[f] /\ Len(src) >= 2 /\ pulled[f] = Len(src)
        /\ result[f] = [op |-> "next", raised |-> "StopIteration", ret |-> None]

\* C7: two synchronous fetchers of depths D1 and D2 that pass over the same
\* source return the same pair at every __next__ and raise StopIteration at
\* the same call.
C7_DepthInvariant ==
    \A f, g \in Prefetchers :
        (in_pass[f] /\ in_pass[g]) =>
            /\ \A k \in 1..Min(Len(out[f]), Len(out[g])) : out[f][k] = out[g][k]
            /\ stop_raised[f] => Len(out[g]) <= Len(out[f])

C7_Witness ==
    /\ fetchers = {1, 2}
    /\ in_pass[1] /\ in_pass[2] /\ stop_raised[1] /\ stop_raised[2]
    /\ prefetch_batches[1] = 1 /\ prefetch_batches[2] > Len(src) /\ Len(src) >= 2
    /\ out[1] = out[2] /\ Len(out[1]) = Len(src)

\* C8: over an empty source, a pass of a prefetching fetcher of any depth
\* delivers nothing: its first __next__ raises StopIteration, fetched stays
\* 0, and neither wait() nor batch_to_device is called.
C8_EmptySource ==
    \A f \in Prefetchers \cup Overlappers :
        (in_pass[f] /\ Len(src) = 0) =>
            /\ out[f] = <<>> /\ batches[f] = <<>>
            /\ fetched[f] = 0
            /\ waits[f] = <<>> /\ issued[f] = <<>>
            /\ result[f].op = "next" =>
                   result[f].raised = "StopIteration" /\ result[f].ret = None

C8_Witness ==
    \E f \in Prefetchers :
        /\ in_pass[f] /\ Len(src) = 0 /\ prefetch_batches[f] >= 2 /\ store_on_device[f]
        /\ stop_raised[f] /\ fetched[f] = 0
        /\ result[f] = [op |-> "next", raised |-> "StopIteration", ret |-> None]

\* C9 (as claimed): after a teardown() of the overlap fetcher the event
\* queue is empty, as is the batch buffer.
C9_TeardownReleasesEvents ==
    \A f \in Overlappers :
        (result[f].op = "teardown" /\ result[f].raised = NoError) =>
            events[f] = <<>> /\ batches[f] = <<>>

\* C10 (as claimed): on a fetcher that was never set up, __iter__ and
\* __next__ both raise MisconfigurationException.
C10_NotConfigured ==
    \A f \in fetchers :
        (dataloader[f] = None /\ result[f].op \in {"iter", "next"}) =>
            result[f].raised = "MisconfigurationException"

\* C11: loader_iters raises MisconfigurationException in every state outside
\* an iteration pass (before the first successful __iter__, and from
\* teardown() to the next __iter__) and returns in every state between a
\* successful __iter__ and teardown().
C11_ChildIterators ==
    \A f \in fetchers :
        /\ loader_iters(Self(f)).raised =
               IF entered[f] THEN NoError ELSE "MisconfigurationException"
        /\ result[f].op = "loader_iters" =>
               result[f].raised =
                   IF entered[f] THEN NoError ELSE "MisconfigurationException"

C11_Witness ==
    \E f \in fetchers :
        /\ abandoned[f] = "middle" /\ ~entered[f] /\ dataloader[f] # None
        /\ result[f] = [op |-> "loader_iters", raised |-> "MisconfigurationException",
                        ret |-> None]

\* C12: in a pass of the synchronous or overlap fetcher the k-th batch
\* returned is the k-th batch of the source iterator, and the buffer holds
\* the batches pulled after it, in the order pulled: none is reordered,
\* duplicated or dropped.
C12_FetchOrder ==
    \A f \in Prefetchers \cup Overlappers :
        in_pass[f] =>
            /\ \A k \in 1..Len(out[f]) : out[f][k][1].id = src[k]
            /\ \A i \in 1..Len(batches[f]) : batches[f][i] = src[Len(out[f]) + i]
            /\ Len(out[f]) + Len(batches[f]) = pulled[f]

C12_Witness ==
    \E f \in Overlappers :
        /\ in_pass[f] /\ prefetch_batches[f] >= 2
        /\ Len(out[f]) >= 2 /\ Len(batches[f]) >= 1
        /\ out[f][2][1].id = src[2]

\* C13: in a pass in which every successful pull stores its tokens, while
\* no more than prefetch_batches pulls were made (every store_progress call
\* saw fetched < prefetch_batches) the tokens are only buffered and the
\* state and previous_state of the iterator are untouched; every later call
\* folds the oldest buffered token of each name, so the state of a name
\* holds token (pulls - prefetch_batches) and the buffer of the name holds the
\* tokens received after it, in the order received.
C13_StoreProgressGating ==
    \A f \in fetchers :
        in_pass[f] =>
            \A n \in 1..src_names :
                /\ cache_states[f][n] =
                       [i \in 1..(pulled[f] - state[f][n]) |-> state[f][n] + i]
                /\ pulled[f] <= prefetch_batches[f] =>
                       state[f] = NoState /\ previous_state[f] = <<>>
                /\ pulled[f] > prefetch_batches[f] =>
                       state[f][n] = pulled[f] - prefetch_batches[f]

C13_Witness ==
    \E f \in Prefetchers :
        /\ in_pass[f] /\ prefetch_batches[f] >= 2 /\ src_names >= 2
        /\ pulled[f] > prefetch_batches[f]
        /\ \A n \in 1..src_names :
               /\ state[f][n] = pulled[f] - prefetch_batches[f]
               /\ Len(cache_states[f][n]) = prefetch_batches[f]

\* The names of the steps of the last operation, in order.
StepNames(f) == [i \in 1..Len(steps[f]) |-> steps[f][i].step]

C15_PreviousSnapshot ==
    [][\A f \in fetchers :
          (/\ result'[f].op \in {"next", "pull"}
           /\ state'[f] # state[f]
           /\ StateLen(state[f]) > 0)
          => previous_state'[f] = state[f]]_vars

\* C16: in a pass of the synchronous fetcher the buffer holds at most
\* prefetch_batches batches, fetched is the number of batches delivered plus
\* the number buffered, and the buffer holds exactly prefetch_batches
\* batches as long as the source iterator has not raised StopIteration.
C16_BufferAccounting ==
    \A f \in Prefetchers :
        in_pass[f] =>
            /\ Len(batches[f]) <= prefetch_batches[f]
            /\ fetched[f] = Len(out[f]) + Len(batches[f])
            /\ stops[f] = 0 => Len(batches[f]) = prefetch_batches[f]

C16_Witness ==
    \E f \in Prefetchers :
        /\ in_pass[f] /\ prefetch_batches[f] >= 2 /\ stops[f] = 0
        /\ Len(out[f]) >= 1 /\ Len(batches[f]) = prefetch_batches[f]
        /\ fetched[f] = Len(out[f]) + prefetch_batches[f]

\* C17 (as claimed): between the operations of an overlap fetcher the event
\* queue is as long as the batch buffer, and its i-th event is the one
\* created for the fetch of the i-th buffered batch.
C17_EventsPairBatches ==
    \A f \in Overlappers :
        /\ Len(events[f]) = Len(batches[f])
        /\ \A i \in 1..Len(events[f]) :
               /\ events[f][i].pass = pass[f]
               /\ events[f][i].fetch = fetched[f] - Len(batches[f]) + i

\* C18 (as claimed): in a pass of the synchronous fetcher done is true once
\* the source iterator has raised StopIteration, the iterator is not pulled
\* again after that, and done is true when __next__ raises StopIteration.
C18_DoneTracksExhaustion ==
    \A f \in Prefetchers :
        in_pass[f] =>
            /\ stops[f] > 0 => done[f]
            /\ stops[f] <= 1
            /\ (result[f].op = "next" /\ result[f].raised = "StopIteration") => done[f]

\* C19: a __next__ of the caller-driven fetcher pulls nothing and leaves
\* fetched, done and the iterator as they are; when it returns, it returns
\* (fetched, (iterator, False)); and in a pass in which no pull has found the
\* source exhausted it returns.
C19_PassiveAdvance ==
    [][\A f \in CallerDriven :
          result'[f].op = "next" =>
              /\ fetched'[f] = fetched[f] /\ done'[f] = done[f]
              /\ dataloader_iter'[f] = dataloader_iter[f]
              /\ pulled'[f] = pulled[f] /\ stops'[f] = stops[f]
              /\ steps'[f] = <<>>
              /\ result'[f].raised = NoError => result'[f].ret = <<fetched[f], FALSE>>
              /\ (in_pass[f] /\ stops[f] = 0) => result'[f].raised = NoError]_vars

C19_Witness ==
    \E f \in CallerDriven :
        /\ in_pass[f] /\ Len(src) >= 2 /\ fetched[f] = Len(src) /\ stops[f] = 0
        /\ result[f].op = "next" /\ result[f].raised = NoError
        /\ result[f].ret = <<fetched[f], FALSE>>

\* C20 (as claimed): a __next__ whose refill pull fails with an error of the
\* source leaves the batch buffer, fetched, done and the event queue as they
\* were before the call.
C20_NoBatchLost ==
    [][\A f \in fetchers :
          (result'[f].op = "next" /\ result'[f].raised = "IOError") =>
              /\ batches'[f] = batches[f]
              /\ fetched'[f] = fetched[f] /\ done'[f] = done[f]
              /\ events'[f] = events[f]]_vars

====
